---- MODULE Spec2Model ----
(***************************************************************************)
(* Model of the StrucTexT end2end_ie data reader (LabelConverter,          *)
(* annotation parsing, box sorting, image reading), of the RandomErasing   *)
(* transform op, and of the CAE segmentation utilities (AdamWDL, the       *)
(* learning-rate schedulers).                                              *)
(*                                                                         *)
(* A Python str is a sequence of characters; a character is a one-element  *)
(* TLA+ string, and a character outside ASCII is written by its code       *)
(* point ("U+00DF"; the grave accent is "U+0060").  Python indices are    *)
(* 0-based, TLA+ sequences 1-based: Python position i is TLA+ position     *)
(* i + 1.                                                                  *)
(***************************************************************************)
EXTENDS Integers, Sequences, FiniteSets, TLC

VARIABLES
    idx2char,   \* LabelConverter.idx2char
    char2idx,   \* LabelConverter.char2idx
    seq_len,    \* LabelConverter.seq_len
    recg_loss,  \* LabelConverter.recg_loss
    input,      \* what the data reader is given: a file, a list, an example
    last        \* the last call made: its arguments and what it returned

vars == <<idx2char, char2idx, seq_len, recg_loss, input, last>>

-----------------------------------------------------------------------------
(* Bounds of the explored inputs *)

MaxPieces == 2      \* a transcript is at most this many pieces of Pieces
MaxSeqLen == 7      \* LabelConverter.seq_len ranges over 0..MaxSeqLen
MaxIdxLen == 3      \* length of the index sequences handed to decode
MaxLines == 2       \* records in the form list of an annotation file
MaxWords == 1       \* words of a line record
MaxBoxes == 3       \* entries of a list handed to _sort_box_with_list
MaxSide == 3        \* height and width of an image are 2 or MaxSide
MaxCand == 2        \* h and w of an erasing candidate range over 0..MaxCand
Attempts == 2       \* RandomErasing.attempt
MaxIters == 4       \* total_iters ranges over 0..MaxIters
MaxLayers == 2      \* AdamWDL.n_layers ranges over 1..MaxLayers
MaxSteps == 3       \* _append_optimize_op calls made on one parameter

-----------------------------------------------------------------------------
(* Generic helpers *)

Range(s) == {s[i] : i \in DOMAIN s}

Min(a, b) == IF a < b THEN a ELSE b

RECURSIVE Concat(_)
\* ''.join(list of str)
Concat(ss) == IF ss = <<>> THEN <<>> ELSE Head(ss) \o Concat(Tail(ss))

\* s[:n] for n >= 0
Prefix(s, n) == SubSeq(s, 1, Min(n, Len(s)))

\* s[n:] for n >= 0
Suffix(s, n) == SubSeq(s, Min(n, Len(s)) + 1, Len(s))

\* [v] * n
Repeat(v, n) == [i \in 1..n |-> v]

\* Python's None
None == [none |-> TRUE]

\* no call made yet, nothing handed to the data reader
NoCall == [op |-> "none"]

NoInput == [kind |-> "none"]

\* sequences over S of length at most n
SeqsUpTo(S, n) == UNION {[1..k -> S] : k \in 0..n}

-----------------------------------------------------------------------------
(* The lexicon *)

TEXT_CLASSES == [question |-> 0, answer |-> 1, header |-> 2, other |-> 3]

Lexicon_Table_95 ==
    <<"!", "\"", "#", "$", "%", "&", "'", "(", ")", "*", "+", ",", "-", ".", "/",
      "0", "1", "2", "3", "4", "5", "6", "7", "8", "9", ":", ";", "<", "=", ">", "?", "@",
      "A", "B", "C", "D", "E", "F", "G", "H", "I", "J", "K", "L", "M", "N", "O", "P", "Q",
      "R", "S", "T", "U", "V", "W", "X", "Y", "Z", "[", "\\", "]", "^", "_", "U+0060", "a", "b", "c",
      "d", "e", "f", "g", "h", "i", "j", "k", "l", "m", "n", "o", "p", "q", "r", "s", "t",
      "u", "v", "w", "x", "y", "z", "{", "|", "}", "~", " ">>

\* the str '[PAD]' and the str '[STOP]'
PAD == <<"[", "P", "A", "D", "]">>

STOP == <<"[", "S", "T", "O", "P", "]">>

\* tokens = ['[PAD]', '[STOP]']
tokens == <<PAD, STOP>>

\* list(tokens) + list(lexicon): every lexicon entry is a one-character str
MakeIdx2Char(lexicon) == tokens \o [i \in DOMAIN lexicon |-> <<lexicon[i]>>]

\* a table numbered from 1: enumerate(idx2char, 1)
MakeChar2Idx_OneBased(tab) ==
    [k \in Range(tab) |->
        CHOOSE p \in DOMAIN tab :
            tab[p] = k /\ \A q \in DOMAIN tab : tab[q] = k => q <= p]

\* for i, char in enumerate(idx2char): char2idx[char] = i  (a later i wins)
MakeChar2Idx(tab) ==
    [k \in Range(tab) |->
        (CHOOSE p \in DOMAIN tab :
            tab[p] = k /\ \A q \in DOMAIN tab : tab[q] = k => q <= p) - 1]

-----------------------------------------------------------------------------
(* str.upper() *)

LowerCase == <<"a", "b", "c", "d", "e", "f", "g", "h", "i", "j", "k", "l", "m",
               "n", "o", "p", "q", "r", "s", "t", "u", "v", "w", "x", "y", "z">>

UpperCase == <<"A", "B", "C", "D", "E", "F", "G", "H", "I", "J", "K", "L", "M",
               "N", "O", "P", "Q", "R", "S", "T", "U", "V", "W", "X", "Y", "Z">>

\* upper-casing of one character: a-z map to A-Z, U+00DF (sharp s) to "SS",
\* U+017F (long s) to "S", U+00E9 (e acute) to U+00C9, the rest to itself
UpperChar(c) ==
    IF c \in Range(LowerCase)
    THEN <<UpperCase[CHOOSE i \in DOMAIN LowerCase : LowerCase[i] = c]>>
    ELSE IF c = "U+00DF" THEN <<"S", "S">>
    ELSE IF c = "U+017F" THEN <<"S">>
    ELSE IF c = "U+00E9" THEN <<"U+00C9">>
    ELSE <<c>>

\* text.upper()
upper(text) == Concat([i \in DOMAIN text |-> UpperChar(text[i])])

-----------------------------------------------------------------------------
(* LabelConverter.encode *)

\* an insertion instead of a replacement: new_text_idx[:0] = vals
SliceAssign_Insert(lst, n, vals) == vals \o lst

\* new_text_idx[:n] = vals
SliceAssign(lst, n, vals) == vals \o Suffix(lst, n)

\* a lookup that substitutes the pad index: self.char2idx.get(char, 0)
encode_Get(c2i, sl, text, ignore_tag) ==
    LET text1 == IF ignore_tag THEN <<>> ELSE text
        text2 == upper(text1)
        text3 == [i \in DOMAIN text2 |-> <<text2[i]>>] \o <<STOP>>
        text_idx == [i \in DOMAIN text3 |->
                        IF text3[i] \in DOMAIN c2i THEN c2i[text3[i]] ELSE 0]
        pad_idx  == Repeat(c2i[PAD], sl)
        text_len == Len(text3)
        new_text_idx ==
            IF text_len > sl
            THEN Prefix(text_idx, sl)
            ELSE SliceAssign(pad_idx, text_len, text_idx)
    IN  [status |-> "ok", padded |-> new_text_idx, raw |-> text_idx]

\* an encode that does not clear the text of an ignored entry
encode_IgnoreKept(c2i, sl, text, ignore_tag) ==
    LET text2 == upper(text)
        text3 == [i \in DOMAIN text2 |-> <<text2[i]>>] \o <<STOP>>
        bad   == {i \in DOMAIN text3 : text3[i] \notin DOMAIN c2i}
    IN  IF bad # {}
        THEN [status |-> "KeyError",
              key |-> text3[CHOOSE i \in bad : \A j \in bad : i <= j]]
        ELSE
          LET text_idx == [i \in DOMAIN text3 |-> c2i[text3[i]]]
              pad_idx  == Repeat(c2i[PAD], sl)
              text_len == Len(text3)
              new_text_idx ==
                  IF text_len > sl
                  THEN Prefix(text_idx, sl)
                  ELSE SliceAssign(pad_idx, text_len, text_idx)
          IN  [status |-> "ok", padded |-> new_text_idx, raw |-> text_idx]

\* text_idx = [self.char2idx[char] for char in text]: the first missing key
\* raises KeyError
encode(c2i, sl, text, ignore_tag) ==
    LET text1 == IF ignore_tag THEN <<>> ELSE text
        text2 == upper(text1)
        text3 == [i \in DOMAIN text2 |-> <<text2[i]>>] \o <<STOP>>
        bad   == {i \in DOMAIN text3 : text3[i] \notin DOMAIN c2i}
    IN  IF bad # {}
        THEN [status |-> "KeyError",
              key |-> text3[CHOOSE i \in bad : \A j \in bad : i <= j]]
        ELSE
          LET text_idx == [i \in DOMAIN text3 |-> c2i[text3[i]]]
              pad_idx  == Repeat(c2i[PAD], sl)
              text_len == Len(text3)
              new_text_idx ==
                  IF text_len > sl
                  THEN Prefix(text_idx, sl)
                  ELSE SliceAssign(pad_idx, text_len, text_idx)
          IN  [status |-> "ok", padded |-> new_text_idx, raw |-> text_idx]

-----------------------------------------------------------------------------
(* LabelConverter.decode *)

\* text.find(pat): the 0-based position of the first occurrence, or -1
Find(text, pat) ==
    LET hits == {p \in 0..(Len(text) - Len(pat)) :
                    SubSeq(text, p + 1, p + Len(pat)) = pat}
    IN  IF hits = {} THEN -1 ELSE CHOOSE p \in hits : \A q \in hits : p <= q

\* blanks dropped before the runs are collapsed: t is compared with the
\* last index that is not a blank
CtcKeep_BlankFirst(text_idx, p) ==
    LET prev == {q \in 1..(p - 1) : text_idx[q] # 0}
    IN  /\ text_idx[p] # 0
        /\ \/ prev = {}
           \/ text_idx[p] # text_idx[CHOOSE q \in prev : \A r \in prev : r <= q]

\* the CTC loop: keep t when t != 0 and (i == 0 or t != text_idx[i - 1])
CtcKeep(text_idx, p) ==
    text_idx[p] # 0 /\ (p = 1 \/ text_idx[p] # text_idx[p - 1])

CtcCollapse(text_idx) ==
    LET F[p \in 0..Len(text_idx)] ==
            IF p = 0 THEN <<>>
            ELSE IF CtcKeep(text_idx, p) THEN Append(F[p - 1], text_idx[p])
            ELSE F[p - 1]
    IN  F[Len(text_idx)]

\* if text.find('[STOP]') != -1: text = text[:text.find('[STOP]')]
CutAtStop(text) ==
    IF Find(text, STOP) # -1 THEN Prefix(text, Find(text, STOP)) ELSE text

decode(i2c, loss, text_idx) ==
    LET kept == IF loss = "CE" THEN text_idx ELSE CtcCollapse(text_idx)
    IN  IF \E p \in DOMAIN kept : kept[p] \notin 0..(Len(i2c) - 1)
        THEN [status |-> "IndexError"]
        ELSE [status |-> "ok",
              text |-> CutAtStop(Concat([p \in DOMAIN kept |-> i2c[kept[p] + 1]]))]

-----------------------------------------------------------------------------
(* Annotation parsing: _bbox2poly, _parse_ann_info_funsd *)

bbox2poly(bbox) ==
    <<bbox[1], bbox[2], bbox[3], bbox[2], bbox[3], bbox[4], bbox[1], bbox[4]>>

\* a transcript that is stored as it was read
FilterLexicon_Keep(transcript) == transcript

\* ''.join(filter(lambda char: char in Lexicon_Table_95, transcript))
FilterLexicon(transcript) ==
    SelectSeq(transcript, LAMBDA c : c \in Range(Lexicon_Table_95))

\* res['line'].append((poly, transcript, text_class, False))
LineEntry(line) ==
    <<bbox2poly(line.box), FilterLexicon(line.text), TEXT_CLASSES[line.label], FALSE>>

\* a word entry that inherits the class of its line
WordEntry_Inherit(word, text_class) ==
    <<bbox2poly(word.box), FilterLexicon(word.text), text_class, FALSE>>

\* res['word'].append((poly, transcript, -1, False))
WordEntry(word, text_class) ==
    <<bbox2poly(word.box), FilterLexicon(word.text), -1, FALSE>>

RECURSIVE ParseForm(_, _)
\* for line in data['form']: an empty transcript is skipped, a label that is
\* not a key of TEXT_CLASSES raises KeyError
ParseForm(form, res) ==
    IF form = <<>> THEN [status |-> "ok", res |-> res]
    ELSE LET line == Head(form) IN
         IF Len(line.text) = 0 THEN ParseForm(Tail(form), res)
         ELSE IF line.label \notin DOMAIN TEXT_CLASSES
         THEN [status |-> "KeyError", res |-> res]
         ELSE ParseForm(Tail(form),
                [line |-> Append(res.line, LineEntry(line)),
                 word |-> res.word \o
                    [i \in DOMAIN line.words |->
                        WordEntry(line.words[i], TEXT_CLASSES[line.label])]])

\* a final test with `and` in place of `or`
ParseReturn_And(res) ==
    IF Len(res.line) = 0 /\ Len(res.word) = 0 THEN None ELSE res

\* if len(res['line']) == 0 or len(res['word']) == 0: return None
ParseReturn(res) ==
    IF Len(res.line) = 0 \/ Len(res.word) = 0 THEN None ELSE res

parse_ann_info_funsd(form) ==
    LET r == ParseForm(form, [word |-> <<>>, line |-> <<>>])
    IN  IF r.status = "ok"
        THEN [status |-> "return", built |-> r.res, ret |-> ParseReturn(r.res)]
        ELSE [status |-> r.status, built |-> r.res]

-----------------------------------------------------------------------------
(* Box ordering: _sort_box_with_list *)

\* cv2.minAreaRect(poly)[0] for the axis-aligned rectangles _bbox2poly
\* builds: the middle of the rectangle, here doubled to stay in the
\* integers: <<2 * center x, 2 * center y>>
MinAreaRectCenter2(poly) ==
    LET xs == {poly[1], poly[3], poly[5], poly[7]}
        ys == {poly[2], poly[4], poly[6], poly[8]}
        lo(S) == CHOOSE v \in S : \A u \in S : v <= u
        hi(S) == CHOOSE v \in S : \A u \in S : u <= v
    IN  <<lo(xs) + hi(xs), lo(ys) + hi(ys)>>

\* a key that ignores left_right_first
compare_key_LeftRight(x, left_right_first) ==
    LET center == MinAreaRectCenter2(x[1])
    IN  <<center[1], center[2]>>

compare_key(x, left_right_first) ==
    LET center == MinAreaRectCenter2(x[1])
    IN  IF left_right_first
        THEN <<center[1], center[2]>>
        ELSE <<center[2], center[1]>>

\* the order of Python tuples of two numbers
TupleLess(a, b) == a[1] < b[1] \/ (a[1] = b[1] /\ a[2] < b[2])

\* sorted(anno, key=...): a stable sort; every entry goes behind the
\* entries whose key is not greater than its own
InsertByKey(sorted, x, lrf) ==
    LET k == compare_key(x, lrf)
        n == Cardinality({i \in DOMAIN sorted :
                             ~TupleLess(k, compare_key(sorted[i], lrf))})
    IN  SubSeq(sorted, 1, n) \o <<x>> \o SubSeq(sorted, n + 1, Len(sorted))

sort_box_with_list(anno, left_right_first) ==
    LET F[p \in 0..Len(anno)] ==
            IF p = 0 THEN <<>>
            ELSE InsertByKey(F[p - 1], anno[p], left_right_first)
    IN  F[Len(anno)]

-----------------------------------------------------------------------------
(* Dataset._convert_examples *)

\* np.array(polys).reshape(-1, 4, 2) of one polygon
Reshape42(poly) == [p \in 1..4 |-> <<poly[2 * p - 1], poly[2 * p]>>]

\* the encode calls of one of the two loops, in order; which is 1 for the
\* padded sequence (words), 2 for the raw one (lines)
EncodeAll(c2i, sl, anno, which) ==
    LET enc == [i \in DOMAIN anno |-> encode(c2i, sl, anno[i][2], anno[i][4])]
        bad == {i \in DOMAIN anno : enc[i].status # "ok"}
    IN  IF bad # {}
        THEN [status |-> "KeyError",
              key |-> enc[CHOOSE i \in bad : \A j \in bad : i <= j].key]
        ELSE [status |-> "ok",
              texts |-> [i \in DOMAIN anno |->
                            IF which = 1 THEN enc[i].padded ELSE enc[i].raw]]

\* one of label_word, label_line
LabelGroup(anno, texts) ==
    [polys |-> [i \in DOMAIN anno |-> Reshape42(anno[i][1])],
     texts |-> texts,
     classes |-> [i \in DOMAIN anno |-> anno[i][3]],
     ignore_tags |-> [i \in DOMAIN anno |-> anno[i][4]]]

\* _convert_examples up to the call of self.transform: the result is the
\* multi_label of the example handed to the transform, None for an invalid
\* annotation file, or the KeyError of TEXT_CLASSES or of char2idx
convert_examples(c2i, sl, form) ==
    LET anno == parse_ann_info_funsd(form)
    IN  IF anno.status # "return"
        THEN [status |-> "KeyError", at |-> "TEXT_CLASSES"]
        ELSE IF anno.ret = None THEN [status |-> "return", ret |-> None]
        ELSE
          LET anno_line == sort_box_with_list(anno.ret.line, FALSE)
              anno_word == sort_box_with_list(anno.ret.word, FALSE)
              words == EncodeAll(c2i, sl, anno_word, 1)
              lines == EncodeAll(c2i, sl, anno_line, 2)
          IN  IF words.status # "ok"
              THEN [status |-> "KeyError", at |-> "char2idx", key |-> words.key]
              ELSE IF lines.status # "ok"
              THEN [status |-> "KeyError", at |-> "char2idx", key |-> lines.key]
              ELSE [status |-> "return",
                    ret |-> [multi_label |-> <<LabelGroup(anno_word, words.texts),
                                               LabelGroup(anno_line, lines.texts)>>]]

-----------------------------------------------------------------------------
(* Dataset._read_data *)

\* os.path.basename(data_path).replace('.json', '.png'): a file name is the
\* sequence of its stem and its extensions
ImageName(name) == [i \in DOMAIN name |-> IF name[i] = ".json" THEN ".png" ELSE name[i]]

\* a reader whose try block is missing and which does not test for None
read_data_Unguarded(example, exists, imread) ==
    LET image_path == <<example.image_path, ImageName(example.data_path.name)>>
    IN  IF ~exists THEN [status |-> "return", ret |-> None]
        ELSE IF imread = "throws" THEN [status |-> "raise"]
        ELSE [status |-> "return",
              ret |-> [image |-> IF imread = "none" THEN None ELSE [pixels_of |-> image_path],
                       boxes_and_texts_file |-> example.data_path]]

\* exists is os.path.exists(image_path); imread is what cv2.imread does:
\* it throws, it yields None, or it yields the image
read_data(example, exists, imread) ==
    LET image_path == <<example.image_path, ImageName(example.data_path.name)>>
    IN  IF ~exists THEN [status |-> "return", ret |-> None]
        ELSE IF imread = "throws" THEN [status |-> "return", ret |-> None]
        ELSE IF imread = "none" THEN [status |-> "return", ret |-> None]
        ELSE [status |-> "return",
              ret |-> [image |-> [pixels_of |-> image_path],
                       boxes_and_texts_file |-> example.data_path]]

-----------------------------------------------------------------------------
(* RandomErasing *)

\* the text of the Exception of Pixels.__call__, word by word
InvalidModeMsg ==
    <<"Invalid", "mode", "in", "RandomErasing", ",", "only", "support",
      "\"", "const", "\"", ",", "\"", "rand", "\"", ",", "\"", "pixel", "\"">>

\* a Pixels that falls back to the mean
Pixels_Fallback(mode) ==
    IF mode = "rand" THEN [status |-> "ok", fill |-> "normal"]
    ELSE IF mode = "pixel" THEN [status |-> "ok", fill |-> "normal"]
    ELSE [status |-> "ok", fill |-> "mean"]

\* Pixels.__call__: what the rectangle is filled with, or the Exception
Pixels(mode) ==
    IF mode = "rand" THEN [status |-> "ok", fill |-> "normal"]
    ELSE IF mode = "pixel" THEN [status |-> "ok", fill |-> "normal"]
    ELSE IF mode = "const" THEN [status |-> "ok", fill |-> "mean"]
    ELSE [status |-> "raise", msg |-> InvalidModeMsg]

\* the index set of an array of the given shape
Indices(shape) ==
    (0..(shape[1] - 1)) \X (0..(shape[2] - 1)) \X (0..(shape[3] - 1))

\* np.transpose(img, (1, 2, 0))
Transpose120(img) ==
    LET shape == <<img.shape[2], img.shape[3], img.shape[1]>>
    IN  [shape |-> shape,
         px |-> [t \in Indices(shape) |-> img.px[<<t[3], t[1], t[2]>>]]]

\* np.transpose(img, (2, 0, 1))
Transpose201(img) ==
    LET shape == <<img.shape[3], img.shape[1], img.shape[2]>>
    IN  [shape |-> shape,
         px |-> [t \in Indices(shape) |-> img.px[<<t[2], t[3], t[1]>>]]]

\* if w < img.shape[1] and h < img.shape[0]
Fits(cand, img) == cand.w < img.shape[2] /\ cand.h < img.shape[1]

\* a slice whose upper ends are included: img[x1:x1 + h + 1, y1:y1 + w + 1]
FillRect_Inclusive(img, x1, y1, h, w, fill) ==
    [img EXCEPT !.px =
        [t \in DOMAIN img.px |->
            IF t[1] \in x1..(x1 + h) /\ t[2] \in y1..(y1 + w)
            THEN fill ELSE img.px[t]]]

\* img[x1:x1 + h, y1:y1 + w] = pixels
FillRect(img, x1, y1, h, w, fill) ==
    [img EXCEPT !.px =
        [t \in DOMAIN img.px |->
            IF t[1] \in x1..(x1 + h - 1) /\ t[2] \in y1..(y1 + w - 1)
            THEN fill ELSE img.px[t]]]

\* RandomErasing.__call__(data) for data['image'] = image.  The random
\* draws are the arguments: skip is random.random() > self.EPSILON,
\* cands[i] the h and w of the i-th attempt, x1 and y1 the two randint
RandomErasing(image, mode, attempt, skip, cands, x1, y1) ==
    IF skip THEN [status |-> "ok", image |-> image, tried |-> 0, rect |-> None]
    ELSE
      LET channel_first == image.shape[1] = 3
          img == IF channel_first THEN Transpose120(image) ELSE image
          fit == {i \in 1..attempt : Fits(cands[i], img)}
      IN  IF fit = {}
          THEN [status |-> "ok", tried |-> attempt, rect |-> None,
                image |-> IF channel_first THEN Transpose201(img) ELSE img]
          ELSE
            LET k == CHOOSE i \in fit : \A j \in fit : i <= j
                pixels == Pixels(mode)
            IN  IF pixels.status = "raise"
                THEN [status |-> "raise", msg |-> pixels.msg, tried |-> k,
                      image |-> image]
                ELSE
                  LET out == FillRect(img, x1, y1, cands[k].h, cands[k].w, pixels.fill)
                  IN  [status |-> "ok", tried |-> k,
                       rect |-> [x1 |-> x1, y1 |-> y1, h |-> cands[k].h, w |-> cands[k].w],
                       image |-> IF channel_first THEN Transpose201(out) ELSE out]

-----------------------------------------------------------------------------
(* cosine_scheduler, polynomial_scheduler *)

\* np.arange(n): empty for n <= 0
arange(n) == IF n <= 0 THEN <<>> ELSE [i \in 1..n |-> i - 1]

\* np.linspace(start_warmup_value, base_value, num) for num > 0: the i-th of
\* num values between the two ends
linspace(num) == [i \in 1..num |-> [phase |-> "warmup", i |-> i - 1, of |-> num]]

\* if warmup_iters > 0: warmup_schedule = np.linspace(...)
WarmupSchedule(warmup_iters) ==
    IF warmup_iters > 0 THEN linspace(warmup_iters) ELSE <<>>

\* assert len(schedule) == total_iters; return schedule
AssertLength(schedule, total_iters) ==
    IF Len(schedule) = total_iters
    THEN [status |-> "return", schedule |-> schedule]
    ELSE [status |-> "AssertionError", at |-> "len(schedule)", schedule |-> schedule]

\* an entry stands for final_value + 0.5 * (base_value - final_value) *
\* (1 + cos(pi * i / len(iters)))
cosine_scheduler(total_iters, warmup_iters) ==
    LET warmup_schedule == WarmupSchedule(warmup_iters)
        iters == arange(total_iters - warmup_iters)
        schedule == [p \in DOMAIN iters |->
                        [phase |-> "cosine", i |-> iters[p], of |-> Len(iters)]]
    IN  AssertLength(warmup_schedule \o schedule, total_iters)

\* paddle.optimizer.lr.PolynomialDecay asserts decay_steps > 0; an entry
\* stands for scheduler.get_lr() after i steps
polynomial_scheduler(total_iters, warmup_iters) ==
    LET warmup_schedule == WarmupSchedule(warmup_iters)
        iters == total_iters - warmup_iters
    IN  IF iters <= 0
        THEN [status |-> "AssertionError", at |-> "PolynomialDecay",
              schedule |-> warmup_schedule]
        ELSE LET values == [p \in 1..iters |->
                               [phase |-> "polynomial", i |-> p - 1, of |-> iters]]
             IN  AssertLength(warmup_schedule \o values, total_iters)

-----------------------------------------------------------------------------
(* layerwise_lr_decay, AdamWDL._append_optimize_op *)

\* a float as a fraction of two integers
Frac(n, d) == [num |-> n, den |-> d]

FracMul(a, b) == Frac(a.num * b.num, a.den * b.den)

FracEq(a, b) == a.num * b.den = b.num * a.den

RECURSIVE FracPow(_, _)
\* a ** e for an integer e
FracPow(a, e) ==
    IF e = 0 THEN Frac(1, 1)
    ELSE IF e < 0 THEN FracPow(Frac(a.den, a.num), 0 - e)
    ELSE FracMul(a, FracPow(a, e - 1))

\* pat in text
Contains(text, pat) == Find(text, pat) # -1

\* text[idx:], idx counted from the end when negative
SliceFrom(text, idx) ==
    IF idx >= 0 THEN Suffix(text, idx)
    ELSE Suffix(text, IF Len(text) + idx < 0 THEN 0 ELSE Len(text) + idx)

RECURSIVE Split(_, _)
\* text.split(sep) for a one-character sep
Split(text, sep) ==
    LET hits == {p \in DOMAIN text : text[p] = sep}
    IN  IF hits = {} THEN <<text>>
        ELSE LET p == CHOOSE q \in hits : \A r \in hits : q <= r
             IN  <<SubSeq(text, 1, p - 1)>> \o Split(SubSeq(text, p + 1, Len(text)), sep)

Digits == <<"0", "1", "2", "3", "4", "5", "6", "7", "8", "9">>

\* int(text) for a text of decimal digits; anything else is a ValueError
ParseInt(text) ==
    IF text = <<>> \/ \E p \in DOMAIN text : text[p] \notin Range(Digits)
    THEN [ok |-> FALSE]
    ELSE LET d(c) == (CHOOSE i \in DOMAIN Digits : Digits[i] = c) - 1
             F[p \in 0..Len(text)] ==
                 IF p = 0 THEN 0 ELSE 10 * F[p - 1] + d(text[p])
         IN  [ok |-> TRUE, val |-> F[Len(text)]]

\* layerwise_lr_decay: the ratio, or the exception raised before
\* optimize_attr is written
LayerRatio(decay_rate, name_dict, n_layers, name) ==
    IF name \notin DOMAIN name_dict THEN [status |-> "KeyError"]
    ELSE
      LET static_name == name_dict[name]
      IN  IF Contains(static_name, <<"b", "l", "o", "c", "k", "s">>)
          THEN LET idx == Find(static_name, <<"b", "l", "o", "c", "k", "s", ".">>)
                   parts == Split(SliceFrom(static_name, idx), ".")
               IN  IF Len(parts) < 2 THEN [status |-> "IndexError"]
                   ELSE IF ~ParseInt(parts[2]).ok THEN [status |-> "ValueError"]
                   ELSE [status |-> "ok",
                         ratio |-> FracPow(decay_rate, n_layers - ParseInt(parts[2]).val)]
          ELSE IF Contains(static_name, <<"e", "m", "b", "e", "d">>)
          THEN [status |-> "ok", ratio |-> FracPow(decay_rate, n_layers + 1)]
          ELSE [status |-> "ok", ratio |-> Frac(1, 1)]

\* param.optimize_attr["learning_rate"] *= ratio
layerwise_lr_decay(decay_rate, name_dict, n_layers, param) ==
    LET r == LayerRatio(decay_rate, name_dict, n_layers, param.name)
    IN  IF r.status # "ok" THEN [status |-> r.status, param |-> param]
        ELSE [status |-> "ok",
              param |-> [param EXCEPT !.learning_rate = FracMul(@, r.ratio)]]

\* a step that leaves the decayed rate in place
RestoreLr_Skip(param, prev_lr) == param

\* param_and_grad[0].optimize_attr["learning_rate"] = prev_lr
RestoreLr(param, prev_lr) == [param EXCEPT !.learning_rate = prev_lr]

\* AdamWDL._append_optimize_op.  set_param_lr_fun is the partial object
\* __init__ builds, never None.  weight_decay and adam are what the two
\* calls into the base optimizer do: "ok", or "raise".  lr_in_op is the rate
\* the Adam op is appended with.
append_optimize_op(opt, param, weight_decay, adam) ==
    IF weight_decay = "raise"
    THEN [status |-> "raise", param |-> param, lr_in_op |-> None]
    ELSE
      LET prev_lr == param.learning_rate
          set == layerwise_lr_decay(opt.layerwise_decay, opt.name_dict,
                                    opt.n_layers, param)
      IN  IF set.status # "ok"
          THEN [status |-> set.status, param |-> set.param, lr_in_op |-> None]
          ELSE IF adam = "raise"
          THEN [status |-> "raise", param |-> set.param,
                lr_in_op |-> set.param.learning_rate]
          ELSE [status |-> "ok", param |-> RestoreLr(set.param, prev_lr),
                lr_in_op |-> set.param.learning_rate]

-----------------------------------------------------------------------------
(* Inputs *)

\* [stop] lower-cased, a lower-case letter, and two characters outside the
\* lexicon: U+00DF upper-cases into the lexicon, U+00E9 does not
Pieces == {<<"a">>, <<"[", "s", "t", "o", "p", "]">>, <<"U+00DF">>, <<"U+00E9">>}

Transcripts == {Concat(ps) : ps \in SeqsUpTo(Pieces, MaxPieces)}

\* blank/pad 0, stop 1 and the index of "!"
DecodeIdx == {0, 1, 2}

DecodeInputs == SeqsUpTo(DecodeIdx, MaxIdxLen)


\* config.get('max_seq_len', 50)
DefaultSeqLen == 50

\* line records: an empty transcript, transcripts with characters outside
\* the lexicon, every label of TEXT_CLASSES and one that is not a key of it
LineHeads ==
    {[text |-> <<>>, label |-> "question"],
     [text |-> <<"a">>, label |-> "question"],
     [text |-> <<"a">>, label |-> "answer"],
     [text |-> <<"U+00E9">>, label |-> "header"],
     [text |-> <<"U+00DF", "b">>, label |-> "other"],
     [text |-> <<"a">>, label |-> "bogus"]}

WordRecs ==
    {[box |-> <<0, 0, 2, 2>>, text |-> <<"a">>],
     [box |-> <<1, 4, 3, 6>>, text |-> <<"U+00E9", "!">>]}

LineRecs ==
    {[box |-> <<0, 0, 4, 6>>, text |-> h.text, label |-> h.label, words |-> ws] :
        h \in LineHeads, ws \in SeqsUpTo(WordRecs, MaxWords)}

AnnInputs == {[kind |-> "ann", form |-> f] : f \in SeqsUpTo(LineRecs, MaxLines)}

\* boxes with the centers (1, 5), (2, 1), (1, 1) and (2, 5)
SortBoxes == {<<0, 4, 2, 6>>, <<1, 0, 3, 2>>, <<0, 0, 2, 2>>, <<1, 4, 3, 6>>}

AnnoInputs ==
    {[kind |-> "anno", anno |-> a] :
        a \in SeqsUpTo({<<bbox2poly(b), <<"A">>, -1, FALSE>> : b \in SortBoxes}, MaxBoxes)}

\* an example and the state of the file system it meets
ExampleInputs ==
    {[kind |-> "example",
      example |-> [data_path |-> [dir |-> "anno", name |-> n], image_path |-> "image"],
      exists |-> e, imread |-> r] :
        n \in {<<"a", ".json">>, <<"b", ".txt">>, <<"c", ".json", ".json">>},
        e \in BOOLEAN, r \in {"throws", "none", "image"}}

\* H x W x 3 and 3 x H x W arrays
ImageShapes ==
    {<<h, w, 3>> : h \in {2, MaxSide}, w \in {2, MaxSide}} \cup
    {<<3, h, w>> : h \in {2, MaxSide}, w \in {2, MaxSide}}

NewImage(shape) == [shape |-> shape, px |-> [t \in Indices(shape) |-> "orig"]]

Modes == {"const", "rand", "pixel", "bogus"}

ImageInputs ==
    {[kind |-> "image", mode |-> m, image |-> NewImage(sh)] :
        m \in Modes, sh \in ImageShapes}

Cand == [h : 0..MaxCand, w : 0..MaxCand]

\* total_iters and warmup_iters of a scheduler call; -1 is the default of
\* warmup_iters
SchedInputs ==
    {[kind |-> "sched", total_iters |-> t, warmup_iters |-> w] :
        t \in 0..MaxIters, w \in (0 - 1)..(MaxIters + 1)}

\* name_dict: the static name of every parameter but "w_6"
NameDict ==
    [w_0 |-> <<"b", "l", "o", "c", "k", "s", ".", "3", ".", "a", "t", "t", "n", ".", "w">>, w_1 |-> <<"e", "n", "c", "o", "d", "e", "r", ".", "b", "l", "o", "c", "k", "s", ".", "0", ".", "w">>,
     w_2 |-> <<"p", "a", "t", "c", "h", "_", "e", "m", "b", "e", "d", ".", "w">>, w_3 |-> <<"h", "e", "a", "d", ".", "w">>,
     w_4 |-> <<"b", "l", "o", "c", "k", "s", ".", "x", ".", "w">>, w_5 |-> <<"b", "l", "o", "c", "k", "s">>]

\* a parameter and the optimizer that steps it; lr0 is the rate the
\* parameter was created with, normal tells that no call has raised
ParamInputs ==
    {[kind |-> "param",
      opt |-> [layerwise_decay |-> d, name_dict |-> NameDict, n_layers |-> n],
      param |-> [name |-> p, learning_rate |-> lr],
      lr0 |-> lr, steps |-> 0, normal |-> TRUE] :
        d \in {Frac(1, 1), Frac(1, 2)}, n \in 1..MaxLayers,
        p \in {"w_0", "w_1", "w_2", "w_3", "w_4", "w_5", "w_6"},
        lr \in {Frac(1, 1), Frac(1, 10)}}

-----------------------------------------------------------------------------
(* LabelConverter as a state machine *)

\* LabelConverter(seq_len, lexicon=None, recg_loss)
Init ==
    /\ idx2char = MakeIdx2Char(Lexicon_Table_95)
    /\ char2idx = MakeChar2Idx(idx2char)
    /\ seq_len \in 0..MaxSeqLen
    /\ recg_loss \in {"CE", "CTC"}
    /\ input = NoInput
    /\ last = NoCall

Encode ==
    \E text \in Transcripts, ignore_tag \in BOOLEAN :
        /\ last' = [op |-> "encode", text |-> text, ignore_tag |-> ignore_tag,
                    ret |-> encode(char2idx, seq_len, text, ignore_tag)]
        /\ UNCHANGED <<idx2char, char2idx, seq_len, recg_loss, input>>

\* decode of a fresh index sequence, or of a sequence the preceding encode
\* returned
DecodeOf(src, text_idx) ==
    /\ last' = [op |-> "decode", src |-> src, text_idx |-> text_idx,
                of |-> IF src = "input" THEN NoCall ELSE last,
                ret |-> decode(idx2char, recg_loss, text_idx)]
    /\ UNCHANGED <<idx2char, char2idx, seq_len, recg_loss, input>>

Decode ==
    \/ \E text_idx \in DecodeInputs : DecodeOf("input", text_idx)
    \/ /\ last.op = "encode"
       /\ last.ret.status = "ok"
       /\ \/ DecodeOf("padded", last.ret.padded)
          \/ DecodeOf("raw", last.ret.raw)

Next == Encode \/ Decode

Spec == Init /\ [][Next]_vars

-----------------------------------------------------------------------------
(* Claims about LabelConverter *)

InLexicon(text) == Range(text) \subseteq Range(Lexicon_Table_95)

\* C1: in CE mode, for a transcript t of lexicon characters and
\* seq_len > len(t), decode of the padded and of the raw sequence that
\* encode(t, False) returned is t upper-cased.
C1_DecodeEncodeRoundTrip ==
    ( /\ last.op = "decode"
      /\ last.src \in {"padded", "raw"}
      /\ recg_loss = "CE"
      /\ ~last.of.ignore_tag
      /\ InLexicon(last.of.text)
      /\ seq_len > Len(last.of.text) )
    => /\ last.ret.status = "ok"
       /\ last.ret.text = upper(last.of.text)

\* C2: for a transcript of lexicon characters, any seq_len >= 0 and either
\* ignore_tag, the padded sequence encode returns has length seq_len.
C2_PaddedLength ==
    (last.op = "encode" /\ InLexicon(last.text))
    => /\ last.ret.status = "ok"
       /\ Len(last.ret.padded) = seq_len

\* an encode that truncates and one that pads are both among the cases; the
\* witness is the truncating one
C2_Witness ==
    /\ last.op = "encode"
    /\ InLexicon(last.text)
    /\ ~last.ignore_tag
    /\ seq_len > 0
    /\ Len(last.text) + 1 > seq_len
    /\ last.ret.status = "ok"

\* the reference pipeline of C3
RefCollapseRuns(s) ==
    LET firsts == {p \in DOMAIN s : p = 1 \/ s[p] # s[p - 1]}
        F[p \in 0..Len(s)] ==
            IF p = 0 THEN <<>>
            ELSE IF p \in firsts THEN Append(F[p - 1], s[p]) ELSE F[p - 1]
    IN  F[Len(s)]

RefDropBlanks(s) == SelectSeq(s, LAMBDA t : t # 0)

RefCtcDecode(s) ==
    LET collapsed == RefCollapseRuns(s)
        kept == RefDropBlanks(collapsed)
    IN  CutAtStop(Concat([p \in DOMAIN kept |-> idx2char[kept[p] + 1]]))

NoAdjacentRepeats(s) == \A p \in 1..(Len(s) - 1) : s[p] # s[p + 1]

\* C3: in CTC mode decode(s) is the text of the reference pipeline: collapse
\* every run of equal indices (leaving no adjacent repeats), drop the blank
\* index 0, map to characters, cut at the first stop token.
C3_CtcDecodeIsReference ==
    (last.op = "decode" /\ recg_loss = "CTC")
    => /\ NoAdjacentRepeats(RefCollapseRuns(last.text_idx))
       /\ last.ret.status = "ok"
       /\ last.ret.text = RefCtcDecode(last.text_idx)

\* two equal indices separated by a blank: both survive
C3_Witness ==
    /\ last.op = "decode"
    /\ recg_loss = "CTC"
    /\ Len(last.text_idx) = 3
    /\ last.text_idx[1] = 2
    /\ last.text_idx[2] = 0
    /\ last.text_idx[3] = 2
    /\ last.ret.text = <<"!", "!">>

\* C4 as stated: encode(text, False) fails with KeyError whenever text has a
\* character outside the alphabet.
C4_FailsOnAnyOutsideChar ==
    (last.op = "encode" /\ ~last.ignore_tag /\ ~InLexicon(last.text))
    => last.ret.status = "KeyError"

\* C4 amended: encode(text, False) fails with KeyError, returning no
\* sequence, exactly when text.upper() has a character outside the lexicon;
\* the key of the error is the first such character.
C4_FailsOnOutsideUpperChar ==
    (last.op = "encode" /\ ~last.ignore_tag)
    => LET up == upper(last.text)
           out == {i \in DOMAIN up : up[i] \notin Range(Lexicon_Table_95)}
       IN  IF out = {}
           THEN last.ret.status = "ok"
           ELSE /\ last.ret.status = "KeyError"
                /\ DOMAIN last.ret = {"status", "key"}
                /\ \E i \in out : /\ \A j \in out : i <= j
                                  /\ last.ret.key = <<up[i]>>

C4_Witness ==
    /\ last.op = "encode"
    /\ ~last.ignore_tag
    /\ last.text = <<"a", "U+00E9">>
    /\ last.ret.status = "KeyError"
    /\ last.ret.key = <<"U+00C9">>

\* C5: whatever calls were made, the tables are the ones the constructor
\* built from the default lexicon: [PAD] is index 0, [STOP] index 1, and
\* char2idx[idx2char[i]] = i for every i in 0..96.
C5_TablesStable ==
    /\ Len(idx2char) = 97
    /\ idx2char[1] = PAD
    /\ idx2char[2] = STOP
    /\ \A i \in 1..95 : idx2char[i + 2] = <<Lexicon_Table_95[i]>>
    /\ DOMAIN char2idx = Range(idx2char)
    /\ char2idx[PAD] = 0
    /\ char2idx[STOP] = 1
    /\ \A i \in 0..96 : char2idx[idx2char[i + 1]] = i

\* a failed encode has been made
C5_Witness ==
    /\ last.op = "encode"
    /\ last.ret.status = "KeyError"
    /\ char2idx[STOP] = 1

\* the index of a lexicon character: its place in the table after the two
\* tokens
LexiconIndex(c) == 1 + CHOOSE i \in DOMAIN Lexicon_Table_95 : Lexicon_Table_95[i] = c

\* the raw sequence C12 describes: the indices of the upper-cased
\* characters, then one stop index
RefRaw(text) ==
    LET up == upper(text)
    IN  [i \in DOMAIN up |-> LexiconIndex(up[i])] \o <<1>>

\* C12: for a transcript t over the lexicon the raw sequence is the indices
\* of the upper-cased characters of t followed by exactly one stop index,
\* its last element; the padded sequence is the first seq_len elements of
\* the raw one when that is longer than seq_len, and otherwise the raw one
\* followed by pad indices only; with ignore_tag set the result is the one
\* of the empty transcript.
C12_EncodeShape ==
    (last.op = "encode" /\ (InLexicon(last.text) \/ last.ignore_tag))
    => LET ref == IF last.ignore_tag THEN RefRaw(<<>>) ELSE RefRaw(last.text)
           raw == last.ret.raw
           padded == last.ret.padded
       IN  /\ last.ret.status = "ok"
           /\ raw = ref
           /\ raw[Len(raw)] = 1
           /\ Cardinality({i \in DOMAIN raw : raw[i] = 1}) = 1
           /\ Len(raw) > seq_len
                => padded = [i \in 1..seq_len |-> raw[i]]
           /\ Len(raw) <= seq_len
                => /\ Len(padded) = seq_len
                   /\ \A i \in 1..seq_len :
                        padded[i] = IF i <= Len(raw) THEN raw[i] ELSE 0

\* an ignored transcript that is not empty, padded behind the stop index
C12_Witness ==
    /\ last.op = "encode"
    /\ last.ignore_tag
    /\ last.text = <<"a", "a">>
    /\ seq_len = 3
    /\ last.ret.status = "ok"
    /\ last.ret.raw = <<1>>
    /\ last.ret.padded = <<1, 0, 0>>

-----------------------------------------------------------------------------
(* The data reader and its transform as a state machine *)

\* Dataset.__init__ builds LabelConverter(seq_len, recg_loss) with the
\* defaults of the config; the input is what the reader is handed.  A
\* behaviour is one call on one input: the functions below keep no state
\* between calls.
InitDataset ==
    /\ idx2char = MakeIdx2Char(Lexicon_Table_95)
    /\ char2idx = MakeChar2Idx(idx2char)
    /\ seq_len = DefaultSeqLen
    /\ recg_loss = "CE"
    /\ input \in AnnInputs \cup AnnoInputs \cup ExampleInputs \cup ImageInputs
    /\ last = NoCall

ParseAnn ==
    /\ input.kind = "ann"
    /\ last = NoCall
    /\ last' = [op |-> "parse", ret |-> parse_ann_info_funsd(input.form)]
    /\ UNCHANGED <<idx2char, char2idx, seq_len, recg_loss, input>>

SortBox ==
    /\ input.kind = "anno"
    /\ last = NoCall
    /\ \E left_right_first \in BOOLEAN :
         last' = [op |-> "sort", left_right_first |-> left_right_first,
                  ret |-> sort_box_with_list(input.anno, left_right_first)]
    /\ UNCHANGED <<idx2char, char2idx, seq_len, recg_loss, input>>

ReadData ==
    /\ input.kind = "example"
    /\ last = NoCall
    /\ last' = [op |-> "read",
                ret |-> read_data(input.example, input.exists, input.imread)]
    /\ UNCHANGED <<idx2char, char2idx, seq_len, recg_loss, input>>

ConvertExamples ==
    /\ input.kind = "ann"
    /\ last = NoCall
    /\ last' = [op |-> "convert",
                ret |-> convert_examples(char2idx, seq_len, input.form)]
    /\ UNCHANGED <<idx2char, char2idx, seq_len, recg_loss, input>>

\* the shape the attempts are compared with
ErasedShape(image) ==
    IF image.shape[1] = 3 THEN Transpose120(image).shape ELSE image.shape

Erase ==
    /\ input.kind = "image"
    /\ last = NoCall
    /\ \E skip \in BOOLEAN, cands \in [1..Attempts -> Cand] :
         LET shape == ErasedShape(input.image)
             fit == {i \in 1..Attempts : Fits(cands[i], [shape |-> shape])}
             k == IF fit = {} THEN 0 ELSE CHOOSE i \in fit : \A j \in fit : i <= j
         IN  \E x1 \in 0..(IF k = 0 \/ skip THEN 0 ELSE shape[1] - cands[k].h),
                y1 \in 0..(IF k = 0 \/ skip THEN 0 ELSE shape[2] - cands[k].w) :
               last' = [op |-> "erase", skip |-> skip, cands |-> cands,
                        ret |-> RandomErasing(input.image, input.mode, Attempts,
                                              skip, cands, x1, y1)]
    /\ UNCHANGED <<idx2char, char2idx, seq_len, recg_loss, input>>

NextDataset == ParseAnn \/ ConvertExamples \/ SortBox \/ ReadData \/ Erase

SpecDataset == InitDataset /\ [][NextDataset]_vars

-----------------------------------------------------------------------------
(* Claims about the data reader *)

\* the line records _parse_ann_info_funsd keeps
KeptLines(form) == SelectSeq(form, LAMBDA l : Len(l.text) > 0)

\* C6: _parse_ann_info_funsd returns None exactly when the line collection
\* or the word collection it built is empty, that is when every record has
\* an empty transcript or no kept record carries a word; otherwise it
\* returns the two collections, both non-empty.
C6_NoneIffEmptyCollection ==
    (last.op = "parse" /\ last.ret.status = "return")
    => LET kept == KeptLines(input.form)
           built == last.ret.built
       IN  /\ last.ret.ret = None <=> (built.line = <<>> \/ built.word = <<>>)
           /\ last.ret.ret = None
                <=> (kept = <<>> \/ \A i \in DOMAIN kept : kept[i].words = <<>>)
           /\ last.ret.ret # None
                => /\ last.ret.ret = built
                   /\ built.line # <<>>
                   /\ built.word # <<>>

\* lines were kept, none of them carries a word
C6_Witness ==
    /\ last.op = "parse"
    /\ last.ret.status = "return"
    /\ last.ret.ret = None
    /\ last.ret.built.line # <<>>
    /\ last.ret.built.word = <<>>

ClassOf(label) ==
    CASE label = "question" -> 0
      [] label = "answer" -> 1
      [] label = "header" -> 2
      [] label = "other" -> 3

\* C7: every word-level entry has category -1 whatever the label of its
\* line, every line-level entry the category of its own record.
C7_Categories ==
    (last.op = "parse" /\ last.ret.status = "return")
    => LET kept == KeptLines(input.form)
           built == last.ret.built
       IN  /\ \A i \in DOMAIN built.word : built.word[i][3] = -1
           /\ Len(built.line) = Len(kept)
           /\ \A i \in DOMAIN kept : built.line[i][3] = ClassOf(kept[i].label)

\* a returned result with a word under a header line
C7_Witness ==
    /\ last.op = "parse"
    /\ last.ret.status = "return"
    /\ last.ret.ret # None
    /\ \E i \in DOMAIN input.form :
         /\ input.form[i].label = "header"
         /\ input.form[i].words # <<>>
    /\ \E i \in DOMAIN last.ret.ret.line : last.ret.ret.line[i][3] = 2
    /\ \E i \in DOMAIN last.ret.ret.word : last.ret.ret.word[i][3] = -1

IsPermutation(a, b) ==
    /\ Len(a) = Len(b)
    /\ \E f \in [DOMAIN a -> DOMAIN b] :
         /\ \A i, j \in DOMAIN a : i # j => f[i] # f[j]
         /\ \A i \in DOMAIN a : a[i] = b[f[i]]

\* C8: _sort_box_with_list returns a permutation of its input in ascending
\* order of (center y, center x), or of (center x, center y) when
\* left_right_first is set: the primary coordinate decides, the secondary
\* one orders equal primaries.
C8_SortedByCenter ==
    last.op = "sort"
    => /\ IsPermutation(last.ret, input.anno)
       /\ \A i, j \in DOMAIN last.ret :
            i < j =>
              LET ci == MinAreaRectCenter2(last.ret[i][1])
                  cj == MinAreaRectCenter2(last.ret[j][1])
                  prim(c) == IF last.left_right_first THEN c[1] ELSE c[2]
                  sec(c) == IF last.left_right_first THEN c[2] ELSE c[1]
              IN  \/ prim(ci) < prim(cj)
                  \/ prim(ci) = prim(cj) /\ sec(ci) <= sec(cj)

\* top to bottom: the entry with center (2, 1) is moved before the one with
\* center (1, 5)
C8_Witness ==
    /\ last.op = "sort"
    /\ ~last.left_right_first
    /\ input.anno = <<<<bbox2poly(<<0, 4, 2, 6>>), <<"A">>, -1, FALSE>>,
                      <<bbox2poly(<<1, 0, 3, 2>>), <<"A">>, -1, FALSE>>>>
    /\ last.ret = <<input.anno[2], input.anno[1]>>

ValidModes == {"const", "rand", "pixel"}

\* C9 as stated: a mode other than "const", "rand", "pixel" ends in a
\* failure whose error names the mode that was supplied.
C9_InvalidModeFailsNamingIt ==
    (last.op = "erase" /\ input.mode \notin ValidModes)
    => /\ last.ret.status = "raise"
       /\ input.mode \in Range(last.ret.msg)

\* C9 amended: a call with such a mode fails exactly when it gets to fill a
\* rectangle (the draw does not exceed EPSILON and a candidate fits); the
\* error is the fixed text that lists the supported modes and not the
\* supplied one; otherwise the call returns the data unchanged.  A call
\* with a supported mode does not fail.
C9_InvalidModeFailsWhenFilling ==
    last.op = "erase"
    => LET shape == ErasedShape(input.image)
           filling == /\ ~last.skip
                      /\ \E i \in 1..Attempts :
                           last.cands[i].h < shape[1] /\ last.cands[i].w < shape[2]
       IN  /\ last.ret.status = "raise"
                <=> (input.mode \notin ValidModes /\ filling)
           /\ last.ret.status = "raise"
                => /\ last.ret.msg = InvalidModeMsg
                   /\ input.mode \notin Range(last.ret.msg)
                   /\ ValidModes \subseteq Range(last.ret.msg)
           /\ (input.mode \notin ValidModes /\ ~filling)
                => /\ last.ret.status = "ok"
                   /\ last.ret.image = input.image

C9_Witness ==
    /\ last.op = "erase"
    /\ input.mode = "bogus"
    /\ last.ret.status = "raise"
    /\ last.ret.tried = 2

\* C10: _read_data never raises for a missing or unreadable image: it
\* returns None when the image file does not exist, when reading it throws
\* or yields no image, and a record of the image and the annotation path
\* only when the image was read.
C10_ReadDataNeverRaises ==
    last.op = "read"
    => /\ last.ret.status = "return"
       /\ last.ret.ret = None
            <=> (~input.exists \/ input.imread \in {"throws", "none"})
       /\ last.ret.ret # None
            => /\ DOMAIN last.ret.ret = {"image", "boxes_and_texts_file"}
               /\ last.ret.ret.image # None
               /\ last.ret.ret.boxes_and_texts_file = input.example.data_path

\* the file exists and reading it throws
C10_Witness ==
    /\ last.op = "read"
    /\ input.exists
    /\ input.imread = "throws"
    /\ last.ret.status = "return"
    /\ last.ret.ret = None

\* the transcripts of the records of a form and of their words
FormTexts(form) ==
    {form[i].text : i \in DOMAIN form} \cup
    UNION {{form[i].words[j].text : j \in DOMAIN form[i].words} : i \in DOMAIN form}

\* C14: every transcript _parse_ann_info_funsd stores, line-level and
\* word-level, has only characters of the lexicon, and so no encode call
\* of _convert_examples fails with a lookup error, whatever the file holds:
\* it returns None or the two label groups with one text per entry.
C14_ParsedTextsEncode ==
    /\ (last.op = "parse" /\ last.ret.status = "return")
       => /\ \A i \in DOMAIN last.ret.built.line : InLexicon(last.ret.built.line[i][2])
          /\ \A i \in DOMAIN last.ret.built.word : InLexicon(last.ret.built.word[i][2])
    /\ last.op = "convert"
       => /\ last.ret.status = "KeyError" => last.ret.at = "TEXT_CLASSES"
          /\ last.ret.status = "KeyError"
               <=> \E i \in DOMAIN KeptLines(input.form) :
                      KeptLines(input.form)[i].label \notin
                          {"question", "answer", "header", "other"}
          /\ (last.ret.status = "return" /\ last.ret.ret # None)
               => LET word == last.ret.ret.multi_label[1]
                      line == last.ret.ret.multi_label[2]
                  IN  /\ Len(word.texts) = Len(word.polys)
                      /\ Len(line.texts) = Len(line.polys)
                      /\ \A i \in DOMAIN word.texts : Len(word.texts[i]) = seq_len
                      /\ \A i \in DOMAIN line.texts :
                           line.texts[i][Len(line.texts[i])] = 1

\* a file whose transcripts have characters outside the lexicon is
\* converted
C14_Witness ==
    /\ last.op = "convert"
    /\ last.ret.status = "return"
    /\ last.ret.ret # None
    /\ \E t \in FormTexts(input.form) : "U+00E9" \in Range(t)
    /\ \E t \in FormTexts(input.form) : "U+00DF" \in Range(t)
    /\ Len(last.ret.ret.multi_label[1].texts) >= 1

\* C15: a RandomErasing call samples at most `attempt` candidates and stops
\* at the first that fits; it overwrites at most one h x w rectangle with
\* h < H and w < W that lies inside the H x W image (0 <= x1, x1 + h <= H,
\* 0 <= y1, y1 + w <= W), leaves every pixel outside it unchanged, and
\* returns the data untouched when the draw exceeds EPSILON or no candidate
\* fits.  H and W are the first two sides of the array in the layout the
\* call works in: sides 2 and 3 of an array whose first side is 3.
C15_ErasesOneRectangleInside ==
    last.op = "erase"
    => LET shape == input.image.shape
           cf == shape[1] = 3
           H == IF cf THEN shape[2] ELSE shape[1]
           W == IF cf THEN shape[3] ELSE shape[2]
           row(t) == IF cf THEN t[2] ELSE t[1]
           col(t) == IF cf THEN t[3] ELSE t[2]
           fits(i) == last.cands[i].h < H /\ last.cands[i].w < W
           nofit == \A i \in 1..Attempts : ~fits(i)
           out == last.ret.image
       IN  /\ last.ret.tried \in 0..Attempts
           /\ out.shape = shape
           /\ DOMAIN out.px = DOMAIN input.image.px
           /\ last.ret.status = "raise" => out = input.image
           /\ (last.skip \/ nofit)
                => /\ last.ret.status = "ok"
                   /\ last.ret.rect = None
                   /\ out = input.image
                   /\ last.ret.tried = IF last.skip THEN 0 ELSE Attempts
           /\ (last.ret.status = "ok" /\ ~last.skip /\ ~nofit)
                => LET r == last.ret.rect
                       inside(t) == /\ row(t) \in r.x1..(r.x1 + r.h - 1)
                                    /\ col(t) \in r.y1..(r.y1 + r.w - 1)
                   IN  /\ r # None
                       /\ fits(last.ret.tried)
                       /\ \A i \in 1..(last.ret.tried - 1) : ~fits(i)
                       /\ r.h = last.cands[last.ret.tried].h
                       /\ r.w = last.cands[last.ret.tried].w
                       /\ r.h < H /\ r.w < W
                       /\ 0 <= r.x1 /\ r.x1 + r.h <= H
                       /\ 0 <= r.y1 /\ r.y1 + r.w <= W
                       /\ \A t \in DOMAIN out.px :
                            IF inside(t) THEN out.px[t] # "orig"
                            ELSE out.px[t] = input.image.px[t]

\* the second candidate fits a channel-first image and is written away
\* from the origin
C15_Witness ==
    /\ last.op = "erase"
    /\ input.image.shape = <<3, 2, 3>>
    /\ last.ret.status = "ok"
    /\ last.ret.tried = 2
    /\ last.ret.rect = [x1 |-> 1, y1 |-> 1, h |-> 1, w |-> 2]
    /\ last.ret.image.px[<<0, 1, 1>>] # "orig"
    /\ last.ret.image.px[<<0, 0, 1>>] = "orig"

-----------------------------------------------------------------------------
(* The CAE segmentation utilities as a state machine *)

InitUtils ==
    /\ idx2char = MakeIdx2Char(Lexicon_Table_95)
    /\ char2idx = MakeChar2Idx(idx2char)
    /\ seq_len = DefaultSeqLen
    /\ recg_loss = "CE"
    /\ input \in SchedInputs \cup ParamInputs
    /\ last = NoCall

CosineScheduler ==
    /\ input.kind = "sched"
    /\ last = NoCall
    /\ last' = [op |-> "cosine",
                ret |-> cosine_scheduler(input.total_iters, input.warmup_iters)]
    /\ UNCHANGED <<idx2char, char2idx, seq_len, recg_loss, input>>

PolynomialScheduler ==
    /\ input.kind = "sched"
    /\ last = NoCall
    /\ last' = [op |-> "polynomial",
                ret |-> polynomial_scheduler(input.total_iters, input.warmup_iters)]
    /\ UNCHANGED <<idx2char, char2idx, seq_len, recg_loss, input>>

\* one optimizer step on the parameter
AppendOptimizeOp ==
    /\ input.kind = "param"
    /\ input.steps < MaxSteps
    /\ \E weight_decay \in {"ok", "raise"}, adam \in {"ok", "raise"} :
         LET r == append_optimize_op(input.opt, input.param, weight_decay, adam)
         IN  /\ input' = [input EXCEPT !.param = r.param,
                                       !.steps = @ + 1,
                                       !.normal = @ /\ r.status = "ok"]
             /\ last' = [op |-> "step", status |-> r.status, lr_in_op |-> r.lr_in_op]
    /\ UNCHANGED <<idx2char, char2idx, seq_len, recg_loss>>

NextUtils == CosineScheduler \/ PolynomialScheduler \/ AppendOptimizeOp

SpecUtils == InitUtils /\ [][NextUtils]_vars

-----------------------------------------------------------------------------
(* Claims about the CAE segmentation utilities *)

\* C11: for every total_iters >= 0 and every warmup_iters, the default -1
\* included, both schedulers build a schedule of exactly total_iters
\* entries, warmup entries followed by decay entries, and the closing
\* assertion does not fail.
C11_ScheduleHasTotalIters ==
    last.op \in {"cosine", "polynomial"}
    => /\ last.ret.status = "return"
       /\ Len(last.ret.schedule) = input.total_iters
       /\ \A i, j \in DOMAIN last.ret.schedule :
            (last.ret.schedule[i].phase = "warmup"
                /\ last.ret.schedule[j].phase # "warmup") => i < j

\* the exponent of layerwise_decay for each parameter whose static name is
\* well formed: n_layers - layer under "blocks.<layer>", n_layers + 1 for an
\* embedding, no decay otherwise
RefExponent(name, n_layers) ==
    CASE name = "w_0" -> n_layers - 3
      [] name = "w_1" -> n_layers
      [] name = "w_2" -> n_layers + 1
      [] name = "w_3" -> 0

\* C13: after any sequence of _append_optimize_op calls that all complete
\* normally, the parameter's optimize_attr['learning_rate'] equals its value
\* before the first call; the decayed rate is in place only while the Adam
\* op is appended.
C13_LearningRateRestored ==
    (input.kind = "param" /\ input.normal)
    => /\ input.param.learning_rate = input.lr0
       /\ last.op = "step"
            => /\ input.param.name \in {"w_0", "w_1", "w_2", "w_3"}
               /\ FracEq(last.lr_in_op,
                         FracMul(input.lr0,
                                 FracPow(input.opt.layerwise_decay,
                                         RefExponent(input.param.name,
                                                     input.opt.n_layers))))

\* two normal steps on a parameter under "blocks." whose rate was decayed
\* while the Adam op was appended
C13_Witness ==
    /\ input.kind = "param"
    /\ input.normal
    /\ input.steps >= 2
    /\ input.param.name = "w_1"
    /\ last.op = "step"
    /\ ~FracEq(last.lr_in_op, input.lr0)

====
